---------------------------- MODULE Spec2Model ----------------------------
(***************************************************************************)
(* Model of streamingfast/sf-tracing: the SetupOpenTelemetry dispatcher    *)
(* with its five backend constructors (src/tracing.go) and the trace       *)
(* identifier helpers GetTraceID / WithTraceID / NewFixedTraceID           *)
(* (src/trace_id.go).                                                      *)
(*                                                                         *)
(* Go strings are sequences of one-character strings, so that parsing,     *)
(* formatting and decoding are computed character by character.  The       *)
(* input alphabet is: ASCII letters, digits and the characters             *)
(*    :  /  ?  =  &  .  -  _                                                *)
(* (no control bytes, no '#', '%', '+', '@', '[', ';', no blanks); on this *)
(* alphabet the library routines below behave as modelled, with one limit: *)
(* the value of a numeric literal is computed for at most 9 significant    *)
(* digits (see ParseFloat).                                                *)
(***************************************************************************)
EXTENDS Integers, Sequences, FiniteSets, TLC

VARIABLES
    callNo,          \* number of SetupOpenTelemetry invocations started
    pc,              \* "idle", or "dialing" while registerOtelcol blocks in grpc.DialContext
    elapsed,         \* clock ticks since the dial context was created
    tracerProvider,  \* otel's process-wide tracer provider
    propagator,      \* otel's process-wide text-map propagator
    lastConf,        \* value of SF_TRACING read by the latest invocation
    lastEnv,         \* outcome of the external constructors in the latest invocation
    lastErr,         \* what the latest invocation returned ("ok" is nil, "pending" while dialing)
    ran,             \* backend constructors entered by the latest invocation
    lastBuilt,       \* history: number of the latest invocation that returned nil on a non-empty setting
    ctxs,            \* the contexts created so far (immutable value carriers)
    derived,         \* the latest WithTraceID call: argument, result, and GetTraceID(argument) before it
    hexIn,           \* argument of the latest NewFixedTraceID call
    fixedOut         \* outcome of the latest NewFixedTraceID call

setupVars == <<callNo, pc, elapsed, tracerProvider, propagator,
               lastConf, lastEnv, lastErr, ran, lastBuilt>>
idVars == <<ctxs, derived, hexIn, fixedOut>>
vars == <<callNo, pc, elapsed, tracerProvider, propagator,
          lastConf, lastEnv, lastErr, ran, lastBuilt,
          ctxs, derived, hexIn, fixedOut>>

---------------------------------------------------------------------------
(* Bounds of the model *)

\* SetupOpenTelemetry invocations explored in one behaviour
MaxCalls == 3
\* clock ticks that make up the dial timeout of one second
TicksPerSecond == 2
\* contexts derived in one behaviour
MaxCtx == 2

---------------------------------------------------------------------------
(* Characters and strings *)

LowerAlphabet == <<"a", "b", "c", "d", "e", "f", "g", "h", "i", "j", "k", "l", "m",
                   "n", "o", "p", "q", "r", "s", "t", "u", "v", "w", "x", "y", "z">>
UpperAlphabet == <<"A", "B", "C", "D", "E", "F", "G", "H", "I", "J", "K", "L", "M",
                   "N", "O", "P", "Q", "R", "S", "T", "U", "V", "W", "X", "Y", "Z">>
DigitAlphabet == <<"0", "1", "2", "3", "4", "5", "6", "7", "8", "9">>

Range(s) == {s[i] : i \in DOMAIN s}
LowerSet == Range(LowerAlphabet)
UpperSet == Range(UpperAlphabet)
DigitSet == Range(DigitAlphabet)
IsLower(c) == c \in LowerSet
IsUpper(c) == c \in UpperSet
IsDigit(c) == c \in DigitSet

\* index of the first occurrence of character c in s at or after i, 0 when absent
RECURSIVE IndexFrom(_, _, _)
IndexFrom(s, c, i) ==
    IF i > Len(s) THEN 0
    ELSE IF s[i] = c THEN i
    ELSE IndexFrom(s, c, i + 1)

\* strings.IndexByte(s, c), 1-based, 0 when absent
IndexOf(s, c) == IndexFrom(s, c, 1)

\* index of the last occurrence of character c in s at or before i, 0 when absent
RECURSIVE LastIndexFrom(_, _, _)
LastIndexFrom(s, c, i) ==
    IF i < 1 THEN 0
    ELSE IF s[i] = c THEN i
    ELSE LastIndexFrom(s, c, i - 1)

\* strings.LastIndex(s, c), 1-based, 0 when absent
LastIndexOf(s, c) == LastIndexFrom(s, c, Len(s))

\* strings.Cut(s, c)
Cut(s, c) ==
    LET i == IndexOf(s, c) IN
    IF i = 0 THEN [before |-> s, after |-> <<>>, found |-> FALSE]
    ELSE [before |-> SubSeq(s, 1, i - 1), after |-> SubSeq(s, i + 1, Len(s)), found |-> TRUE]

\* strings.HasPrefix(s, p)
HasPrefix(s, p) == Len(s) >= Len(p) /\ SubSeq(s, 1, Len(p)) = p

\* strings.ToLower on ASCII
LowerChar(c) ==
    IF IsUpper(c) THEN LowerAlphabet[IndexOf(UpperAlphabet, c)] ELSE c
ToLower(s) == [i \in DOMAIN s |-> LowerChar(s[i])]

\* value of a decimal digit
DigitVal(c) == IndexOf(DigitAlphabet, c) - 1

---------------------------------------------------------------------------
(* net/url.Parse as SetupOpenTelemetry uses it: Scheme, Host, RawQuery *)

\* url.getScheme: the scan over rawURL, position i (1-based)
RECURSIVE getSchemeFrom(_, _)
getSchemeFrom(rawURL, i) ==
    IF i > Len(rawURL)
    THEN [err |-> FALSE, scheme |-> <<>>, rest |-> rawURL]
    ELSE LET c == rawURL[i] IN
         IF IsLower(c) \/ IsUpper(c) THEN getSchemeFrom(rawURL, i + 1)
         ELSE IF IsDigit(c) \/ c \in {"+", "-", "."}
         THEN IF i = 1 THEN [err |-> FALSE, scheme |-> <<>>, rest |-> rawURL]
              ELSE getSchemeFrom(rawURL, i + 1)
         ELSE IF c = ":"
         THEN IF i = 1 THEN [err |-> TRUE, scheme |-> <<>>, rest |-> <<>>]
              ELSE [err |-> FALSE, scheme |-> SubSeq(rawURL, 1, i - 1),
                    rest |-> SubSeq(rawURL, i + 1, Len(rawURL))]
         ELSE [err |-> FALSE, scheme |-> <<>>, rest |-> rawURL]

getScheme(rawURL) == getSchemeFrom(rawURL, 1)

\* url.validOptionalPort: "" or ":" followed by digits only
validOptionalPort(port) ==
    \/ port = <<>>
    \/ /\ port[1] = ":"
       /\ \A i \in 2..Len(port) : IsDigit(port[i])

\* url.parseHost for a host without brackets: a colon must start a numeric port
parseHost(host) ==
    LET i == LastIndexOf(host, ":") IN
    IF i # 0 /\ ~validOptionalPort(SubSeq(host, i, Len(host)))
    THEN [err |-> TRUE, host |-> <<>>]
    ELSE [err |-> FALSE, host |-> host]

UrlError == [err |-> TRUE, Scheme |-> <<>>, Host |-> <<>>, RawQuery |-> <<>>]

\* url.Parse(rawURL)
UrlParse(rawURL) ==
    LET s == getScheme(rawURL) IN
    IF s.err THEN UrlError
    ELSE
    LET scheme == ToLower(s.scheme)
        q      == Cut(s.rest, "?")
        rest   == q.before
        query  == q.after
        seg    == Cut(rest, "/").before
    IN
    IF ~HasPrefix(rest, <<"/">>) /\ scheme # <<>>
    THEN \* a rootless path is opaque: no host
         [err |-> FALSE, Scheme |-> scheme, Host |-> <<>>, RawQuery |-> query]
    ELSE IF ~HasPrefix(rest, <<"/">>) /\ IndexOf(seg, ":") # 0
    THEN UrlError   \* first path segment in URL cannot contain colon
    ELSE IF (scheme # <<>> \/ ~HasPrefix(rest, <<"/", "/", "/">>)) /\ HasPrefix(rest, <<"/", "/">>)
    THEN LET auth == Cut(SubSeq(rest, 3, Len(rest)), "/").before
             h    == parseHost(auth)
         IN IF h.err THEN UrlError
            ELSE [err |-> FALSE, Scheme |-> scheme, Host |-> h.host, RawQuery |-> query]
    ELSE [err |-> FALSE, Scheme |-> scheme, Host |-> <<>>, RawQuery |-> query]

\* u.Query().Get(key): the first value of key among the '&'-separated pairs, "" when absent
RECURSIVE QueryGet(_, _)
QueryGet(query, key) ==
    IF query = <<>> THEN <<>>
    ELSE LET pair == Cut(query, "&")
             kv   == Cut(pair.before, "=")
         IN IF pair.before # <<>> /\ kv.before = key THEN kv.after
            ELSE QueryGet(pair.after, key)

\* whether u.Query() holds the key at all
RECURSIVE QueryHas(_, _)
QueryHas(query, key) ==
    IF query = <<>> THEN FALSE
    ELSE LET pair == Cut(query, "&")
             kv   == Cut(pair.before, "=")
         IN (pair.before # <<>> /\ kv.before = key) \/ QueryHas(pair.after, key)

---------------------------------------------------------------------------
(* strconv.ParseFloat(s, 64).  The syntax is the library's: an optional    *)
(* sign, then "inf", "infinity" or (unsigned) "nan" in any case, or a      *)
(* decimal or "0x" hexadecimal mantissa with an optional dot, '_' between  *)
(* digits, and an 'e' (decimal, optional) or 'p' (hexadecimal, required)   *)
(* exponent.  A finite value is kept exactly, as mant * 10^exp10 with mant *)
(* not divisible by 10; it stands for the float64 nearest to it.  The      *)
(* value is computed for literals of at most 9 significant digits (and,    *)
(* for hexadecimal ones, a decimal form of at most 9 digits): on these no  *)
(* two distinct values round to the same float64 across the thresholds 0   *)
(* and 1 that the sampler tests.  Longer literals are outside the model.   *)

RECURSIVE Pow(_, _)
Pow(b, k) == IF k = 0 THEN 1 ELSE b * Pow(b, k - 1)

\* number of decimal digits of m >= 0
RECURSIVE NumDigits(_)
NumDigits(m) == IF m < 10 THEN 1 ELSE 1 + NumDigits(m \div 10)

StrInfinity == <<"i", "n", "f", "i", "n", "i", "t", "y">>
StrNaN      == <<"n", "a", "n">>

\* strconv.commonPrefixLenIgnoreCase(s, prefix), prefix in lower case
RECURSIVE commonPrefixLenIgnoreCase(_, _)
commonPrefixLenIgnoreCase(s, prefix) ==
    IF s = <<>> \/ prefix = <<>> THEN 0
    ELSE IF LowerChar(s[1]) # prefix[1] THEN 0
    ELSE 1 + commonPrefixLenIgnoreCase(Tail(s), Tail(prefix))

\* a float64: class is "finite", "inf" or "nan"
Float(class, neg, mant, exp10) ==
    [class |-> class, neg |-> neg, mant |-> mant, exp10 |-> exp10]

\* strconv.special: the prefix of s that spells an infinity or NaN, n bytes long
special(s) ==
    LET none == [ok |-> FALSE, n |-> 0, class |-> "finite", neg |-> FALSE] IN
    IF s = <<>> THEN none
    ELSE LET signed == s[1] \in {"+", "-"}
             rest   == IF signed THEN Tail(s) ELSE s
             nsign  == IF signed THEN 1 ELSE 0
             n0     == commonPrefixLenIgnoreCase(rest, StrInfinity)
             n      == IF 3 < n0 /\ n0 < 8 THEN 3 ELSE n0
         IN
         IF signed \/ s[1] \in {"i", "I"}
         THEN IF n = 3 \/ n = 8
              THEN [ok |-> TRUE, n |-> nsign + n, class |-> "inf", neg |-> s[1] = "-"]
              ELSE none
         ELSE IF s[1] \in {"n", "N"} /\ commonPrefixLenIgnoreCase(s, StrNaN) = 3
              THEN [ok |-> TRUE, n |-> 3, class |-> "nan", neg |-> FALSE]
              ELSE none

HexLetters == <<"a", "b", "c", "d", "e", "f">>

\* strconv.readFloat, the mantissa loop from position i (1-based); the result's
\* i is the position of the first character that is not part of the mantissa
RECURSIVE readMantissa(_, _, _, _)
readMantissa(s, i, hex, st) ==
    IF i > Len(s) THEN [st EXCEPT !.i = i]
    ELSE LET c == s[i] IN
         IF c = "_"
         THEN readMantissa(s, i + 1, hex, [st EXCEPT !.underscores = TRUE])
         ELSE IF c = "."
         THEN IF st.sawdot THEN [st EXCEPT !.i = i]
              ELSE readMantissa(s, i + 1, hex, [st EXCEPT !.sawdot = TRUE, !.dp = st.nd])
         ELSE IF IsDigit(c)
         THEN IF c = "0" /\ st.nd = 0
              THEN readMantissa(s, i + 1, hex,
                                [st EXCEPT !.sawdigits = TRUE, !.dp = st.dp - 1])
              ELSE readMantissa(s, i + 1, hex,
                                [st EXCEPT !.sawdigits = TRUE, !.nd = st.nd + 1,
                                           !.mantissa = st.mantissa * (IF hex THEN 16 ELSE 10)
                                                        + DigitVal(c)])
         ELSE IF hex /\ IndexOf(HexLetters, LowerChar(c)) # 0
         THEN readMantissa(s, i + 1, hex,
                           [st EXCEPT !.sawdigits = TRUE, !.nd = st.nd + 1,
                                      !.mantissa = st.mantissa * 16
                                                   + IndexOf(HexLetters, LowerChar(c)) + 9])
         ELSE [st EXCEPT !.i = i]

\* strconv.readFloat, the digits of the exponent from position i
RECURSIVE readExponent(_, _, _, _)
readExponent(s, i, e, underscores) ==
    IF i > Len(s) \/ ~(IsDigit(s[i]) \/ s[i] = "_")
    THEN [i |-> i, e |-> e, underscores |-> underscores]
    ELSE IF s[i] = "_" THEN readExponent(s, i + 1, e, TRUE)
    ELSE readExponent(s, i + 1, IF e < 10000 THEN e * 10 + DigitVal(s[i]) ELSE e,
                      underscores)

\* strconv.underscoreOK, the loop over the number proper; saw is "0" after a
\* digit or base prefix, "_" after an underscore, "!" after anything else
RECURSIVE underscoreScan(_, _, _, _)
underscoreScan(s, i, hex, saw) ==
    IF i > Len(s) THEN saw # "_"
    ELSE IF IsDigit(s[i]) \/ (hex /\ IndexOf(HexLetters, LowerChar(s[i])) # 0)
    THEN underscoreScan(s, i + 1, hex, "0")
    ELSE IF s[i] = "_"
    THEN IF saw # "0" THEN FALSE ELSE underscoreScan(s, i + 1, hex, "_")
    ELSE IF saw = "_" THEN FALSE
    ELSE underscoreScan(s, i + 1, hex, "!")

\* strconv.underscoreOK(s): underscores only between digits or after a base prefix
underscoreOK(s) ==
    LET t      == IF s # <<>> /\ s[1] \in {"+", "-"} THEN Tail(s) ELSE s
        prefix == Len(t) >= 2 /\ t[1] = "0" /\ LowerChar(t[2]) \in {"b", "o", "x"}
    IN IF prefix THEN underscoreScan(t, 3, LowerChar(t[2]) = "x", "0")
       ELSE underscoreScan(t, 1, FALSE, "^")

\* strconv.readFloat(s): n is the number of bytes read when ok; the value read
\* is mantissa * 10^exp, or mantissa * 2^exp when hex
readFloat(s) ==
    LET bad    == [ok |-> FALSE, n |-> 0, neg |-> FALSE, hex |-> FALSE,
                   mantissa |-> 0, exp |-> 0]
        signed == s # <<>> /\ s[1] \in {"+", "-"}
        neg    == s # <<>> /\ s[1] = "-"
        i0     == IF signed THEN 2 ELSE 1
        hex    == i0 + 1 < Len(s) /\ s[i0] = "0" /\ LowerChar(s[i0 + 1]) = "x"
        m      == readMantissa(s, IF hex THEN i0 + 2 ELSE i0, hex,
                               [i |-> 0, sawdot |-> FALSE, sawdigits |-> FALSE, nd |-> 0,
                                dp |-> 0, mantissa |-> 0, underscores |-> FALSE])
        width  == IF hex THEN 4 ELSE 1
        dp     == width * (IF m.sawdot THEN m.dp ELSE m.nd)
        ndMant == width * m.nd
        hasExp == m.i <= Len(s) /\ LowerChar(s[m.i]) = (IF hex THEN "p" ELSE "e")
        j      == IF m.i + 1 <= Len(s) /\ s[m.i + 1] \in {"+", "-"} THEN m.i + 2 ELSE m.i + 1
        esign  == IF m.i + 1 <= Len(s) /\ s[m.i + 1] = "-" THEN 0 - 1 ELSE 1
        x      == readExponent(s, j, 0, m.underscores)
        last   == IF hasExp THEN x.i - 1 ELSE m.i - 1
        us     == IF hasExp THEN x.underscores ELSE m.underscores
        dpe    == IF hasExp THEN dp + x.e * esign ELSE dp
    IN
    IF s = <<>> THEN bad
    ELSE IF ~m.sawdigits THEN bad
    ELSE IF hasExp /\ (m.i + 1 > Len(s) \/ j > Len(s) \/ ~IsDigit(s[j])) THEN bad
    ELSE IF ~hasExp /\ hex THEN bad
    ELSE IF us /\ ~underscoreOK(SubSeq(s, 1, last)) THEN bad
    ELSE [ok |-> TRUE, n |-> last, neg |-> neg, hex |-> hex, mantissa |-> m.mantissa,
          exp |-> IF m.mantissa # 0 THEN dpe - ndMant ELSE 0]

\* m * 10^e with the trailing zeros of m moved into the exponent
RECURSIVE Decimal(_, _)
Decimal(m, e) ==
    IF m = 0 THEN [mant |-> 0, exp10 |-> 0]
    ELSE IF m % 10 = 0 THEN Decimal(m \div 10, e + 1)
    ELSE [mant |-> m, exp10 |-> e]

\* the first 9 digits of mant * 10^k, mant of at most 9 digits
Lead9(mant) == mant * Pow(10, 9 - NumDigits(mant))

\* strconv.atof64 after readFloat: the float64 nearest to the value read.  A
\* magnitude above the largest float64 (1.7976931348623157e308) is ErrRange;
\* one at or below half the smallest (2.4703282292062327e-324) rounds to zero.
atof64(r) ==
    LET d == IF ~r.hex THEN Decimal(r.mantissa, r.exp)
             ELSE IF r.exp >= 0 THEN Decimal(r.mantissa * Pow(2, r.exp), 0)
             ELSE Decimal(r.mantissa * Pow(5, 0 - r.exp), r.exp)
        e == NumDigits(d.mant) + d.exp10 - 1
    IN
    IF d.mant # 0 /\ (e > 308 \/ (e = 308 /\ Lead9(d.mant) >= 179769314))
    THEN [err |-> TRUE, val |-> Float("inf", r.neg, 0, 0)]
    ELSE IF d.mant = 0 \/ e < 0 - 324 \/ (e = 0 - 324 /\ Lead9(d.mant) <= 247032822)
    THEN [err |-> FALSE, val |-> Float("finite", r.neg, 0, 0)]
    ELSE [err |-> FALSE, val |-> Float("finite", r.neg, d.mant, d.exp10)]

\* strconv.ParseFloat(s, 64): err is TRUE for ErrSyntax and ErrRange
ParseFloat(s) ==
    LET sp == special(s)
        r  == readFloat(s)
    IN
    IF sp.ok
    THEN IF sp.n = Len(s) THEN [err |-> FALSE, val |-> Float(sp.class, sp.neg, 0, 0)]
         ELSE [err |-> TRUE, val |-> Float("finite", FALSE, 0, 0)]
    ELSE IF ~r.ok \/ r.n # Len(s) THEN [err |-> TRUE, val |-> Float("finite", FALSE, 0, 0)]
    ELSE atof64(r)

---------------------------------------------------------------------------
(* Literals of src/tracing.go *)

StrStdout     == <<"s", "t", "d", "o", "u", "t">>
StrCloudtrace == <<"c", "l", "o", "u", "d", "t", "r", "a", "c", "e">>
StrOtelcol    == <<"o", "t", "e", "l", "c", "o", "l">>
StrZipkin     == <<"z", "i", "p", "k", "i", "n">>
StrJaeger     == <<"j", "a", "e", "g", "e", "r">>
KeyRatio      == <<"r", "a", "t", "i", "o">>
KeyScheme     == <<"s", "c", "h", "e", "m", "e">>
KeyProjectID  == <<"p", "r", "o", "j", "e", "c", "t", "_", "i", "d">>
ZipkinPath    == <<"/", "a", "p", "i", "/", "v", "2", "/", "s", "p", "a", "n", "s">>
JaegerPath    == <<"/", "a", "p", "i", "/", "t", "r", "a", "c", "e", "s">>

\* the timeout of the collector dial, in seconds (context.WithTimeout(ctx, time.Second))
DialTimeout == 1
\* the same in clock ticks
Deadline == DialTimeout * TicksPerSecond

---------------------------------------------------------------------------
(* Samplers, providers and the effect of one backend constructor *)

\* sdk/trace default sampler, used when no trace.WithSampler option is given
DefaultSampler == [kind |-> "ParentBased(AlwaysSample)", class |-> "finite",
                   mant |-> 1, exp10 |-> 0]
\* trace.AlwaysSample()
AlwaysSample == [kind |-> "AlwaysSample", class |-> "finite", mant |-> 1, exp10 |-> 0]
\* the sampler that keeps the given fraction of the trace IDs
RatioSampler(class, mant, exp10) ==
    [kind |-> "TraceIDRatioBased", class |-> class, mant |-> mant, exp10 |-> exp10]
\* trace.TraceIDRatioBased(fraction): a fraction >= 1 samples always, one <= 0
\* never; NaN is neither and is kept as the sampler's fraction
TraceIDRatioBased(f) ==
    IF f.class = "nan" THEN RatioSampler("nan", 0, 0)
    ELSE IF f.class = "inf" THEN (IF f.neg THEN RatioSampler("finite", 0, 0) ELSE AlwaysSample)
    ELSE IF ~f.neg /\ f.mant > 0 /\ NumDigits(f.mant) + f.exp10 >= 1 THEN AlwaysSample
    ELSE IF f.neg \/ f.mant = 0 THEN RatioSampler("finite", 0, 0)
    ELSE RatioSampler("finite", f.mant, f.exp10)

\* otel's provider before any SetTracerProvider call
NoProvider == [builtBy |-> 0, backend |-> "noop", sampler |-> DefaultSampler,
               exporter |-> "none", resource |-> "none"]

\* a constructor that returns an error before otel.SetTracerProvider
Fail(kind) == [err |-> kind, install |-> FALSE, prov |-> NoProvider,
               setProp |-> FALSE, block |-> FALSE]
\* a constructor that reaches otel.SetTracerProvider(prov) and returns nil
Installed(prov, setProp) == [err |-> "ok", install |-> TRUE, prov |-> prov,
                             setProp |-> setProp, block |-> FALSE]
\* registerOtelcol blocked in grpc.DialContext
Blocked == [err |-> "pending", install |-> FALSE, prov |-> NoProvider,
            setProp |-> FALSE, block |-> TRUE]

\* trace.NewTracerProvider(...) of the invocation being run
NewTracerProvider(backend, sampler, exporter, resource) ==
    [builtBy |-> 0, backend |-> backend, sampler |-> sampler,
     exporter |-> exporter, resource |-> resource]

---------------------------------------------------------------------------
(* The five backend constructors.  u is the parsed URL; env tells whether *)
(* the external exporter and resource constructors succeed.               *)

\* variant: the provider is installed before the resource error is returned
registerStdout_InstallsThenFails(u, env) ==
    IF ~env.expOk THEN Fail("exporter")
    ELSE [err |-> IF env.resOk THEN "ok" ELSE "resource", install |-> TRUE,
          prov |-> NewTracerProvider("stdout", DefaultSampler, "stdout",
                                     "default+service+environment"),
          setProp |-> FALSE, block |-> FALSE]

registerStdout(u, env) ==
    IF ~env.expOk THEN Fail("exporter")
    ELSE IF ~env.resOk THEN Fail("resource")
    ELSE Installed(NewTracerProvider("stdout", DefaultSampler, "stdout",
                                     "default+service+environment"), FALSE)

\* variant: a ratio that does not parse falls back to the documented default
registerCloudTrace_DefaultOnError(u, env) ==
    IF ~env.expOk THEN Fail("exporter")
    ELSE IF ~env.resOk THEN Fail("resource")
    ELSE LET ratio == ParseFloat(QueryGet(u.RawQuery, KeyRatio)) IN
         Installed(NewTracerProvider("cloudtrace",
                                     IF ratio.err THEN TraceIDRatioBased(Float("finite", FALSE, 25, 0 - 2))
                                     ELSE TraceIDRatioBased(ratio.val),
                                     "cloudtrace", "gcp+sdk+service"), FALSE)

registerCloudTrace(u, env) ==
    IF ~env.expOk THEN Fail("exporter")
    ELSE IF ~env.resOk THEN Fail("resource")
    ELSE LET ratio == ParseFloat(QueryGet(u.RawQuery, KeyRatio)) IN
         IF ratio.err THEN Fail("ratio")
         ELSE Installed(NewTracerProvider("cloudtrace",
                                          TraceIDRatioBased(ratio.val),
                                          "cloudtrace", "gcp+sdk+service"), FALSE)

\* registerOtelcol up to the blocking grpc.DialContext
registerOtelcol(u, env) ==
    IF ~env.resOk THEN Fail("resource") ELSE Blocked

\* whether the dial context's deadline has passed
DeadlineExceeded(t) == t >= Deadline

\* variant: the error of DialContext is not checked
registerOtelcolTimeout_IgnoresError ==
    Installed(NewTracerProvider("otelcol", AlwaysSample, "otlp", "service"), TRUE)

\* registerOtelcol when DialContext returns the context's error
registerOtelcolTimeout == Fail("dial")

\* registerOtelcol after DialContext returned a connection
registerOtelcolConnected(env) ==
    IF ~env.expOk THEN Fail("exporter")
    ELSE Installed(NewTracerProvider("otelcol", AlwaysSample, "otlp", "service"), TRUE)

\* fmt.Sprintf("%s://%s/api/v2/spans", u.Query().Get("scheme"), u.Host)
ZipkinEndpoint(u) == QueryGet(u.RawQuery, KeyScheme) \o <<":", "/", "/">> \o u.Host \o ZipkinPath

\* zipkin.New(collectorURL): rejects a URL that does not parse or lacks scheme or host
ZipkinNewFails(u, env) ==
    LET c == UrlParse(ZipkinEndpoint(u)) IN
    ~env.expOk \/ c.err \/ c.Scheme = <<>> \/ c.Host = <<>>

registerZipkin(u, env) ==
    IF ~env.resOk THEN Fail("resource")
    ELSE \* the error of zipkin.New is assigned and never read
         Installed(NewTracerProvider("zipkin", AlwaysSample,
                                     IF ZipkinNewFails(u, env) THEN "nil" ELSE "zipkin",
                                     "service"), TRUE)

\* variant: the propagator is not set
registerJaeger_NoPropagator(u, env) ==
    IF ~env.resOk THEN Fail("resource")
    ELSE IF ~env.expOk THEN Fail("exporter")
    ELSE Installed(NewTracerProvider("jaeger", AlwaysSample, "jaeger", "service"), FALSE)

registerJaeger(u, env) ==
    IF ~env.resOk THEN Fail("resource")
    ELSE IF ~env.expOk THEN Fail("exporter")
    ELSE Installed(NewTracerProvider("jaeger", AlwaysSample, "jaeger", "service"), TRUE)

---------------------------------------------------------------------------
(* SetupOpenTelemetry: conf is the value of SF_TRACING *)

\* variant: the zipkin and jaeger branches are exchanged
Dispatch_Swapped(scheme) ==
    IF scheme = StrStdout THEN "registerStdout"
    ELSE IF scheme = StrCloudtrace THEN "registerCloudTrace"
    ELSE IF scheme = StrOtelcol THEN "registerOtelcol"
    ELSE IF scheme = StrZipkin THEN "registerJaeger"
    ELSE IF scheme = StrJaeger THEN "registerZipkin"
    ELSE ""

\* the constructor the switch on u.Scheme selects, "" for the default branch
Dispatch(scheme) ==
    IF scheme = StrStdout THEN "registerStdout"
    ELSE IF scheme = StrCloudtrace THEN "registerCloudTrace"
    ELSE IF scheme = StrOtelcol THEN "registerOtelcol"
    ELSE IF scheme = StrZipkin THEN "registerZipkin"
    ELSE IF scheme = StrJaeger THEN "registerJaeger"
    ELSE ""

\* the effect of the constructor named ctor
RunConstructor(ctor, u, env) ==
    CASE ctor = "registerStdout"     -> registerStdout(u, env)
      [] ctor = "registerCloudTrace" -> registerCloudTrace(u, env)
      [] ctor = "registerOtelcol"    -> registerOtelcol(u, env)
      [] ctor = "registerZipkin"     -> registerZipkin(u, env)
      [] ctor = "registerJaeger"     -> registerJaeger(u, env)

\* SetupOpenTelemetry once the setting is known not to be empty
SetupFromURL(conf, env) ==
    LET u == UrlParse(conf) IN
    IF u.err THEN [ran |-> {}, eff |-> Fail("parse")]
    ELSE LET ctor == Dispatch(u.Scheme) IN
         IF ctor = "" THEN [ran |-> {}, eff |-> Fail("unsupported")]
         ELSE [ran |-> {ctor}, eff |-> RunConstructor(ctor, u, env)]

\* a return of nil that touched nothing
ReturnNil == [err |-> "ok", install |-> FALSE, prov |-> NoProvider,
              setProp |-> FALSE, block |-> FALSE]

\* variant: the check for an empty setting is missing
SetupOpenTelemetry_NoEmptyCheck(conf, env) == SetupFromURL(conf, env)

\* what one invocation does: the constructors it enters and their effect
SetupOpenTelemetry(conf, env) ==
    IF conf = <<>> THEN [ran |-> {}, eff |-> ReturnNil]
    ELSE SetupFromURL(conf, env)

---------------------------------------------------------------------------
(* Inputs *)

SchemeInputs == {StrStdout, StrCloudtrace, StrOtelcol, StrZipkin, StrJaeger,
                 <<"f", "o", "o">>, <<"S", "T", "D", "O", "U", "T">>, <<>>}
SepInputs    == {<<":", "/", "/">>, <<":">>, <<>>}
HostInputs   == {<<>>, <<"h", ":", "1">>}
QueryInputs  == {<<>>,
                 <<"?", "r", "a", "t", "i", "o", "=", "0", ".", "2", "5">>,
                 <<"?", "r", "a", "t", "i", "o", "=", "a", "b", "c">>,
                 <<"?", "r", "a", "t", "i", "o", "=">>,
                 <<"?", "p", "r", "o", "j", "e", "c", "t", "_", "i", "d", "=", "p">>,
                 <<"?", "p", "r", "o", "j", "e", "c", "t", "_", "i", "d", "=", "p",
                   "&", "r", "a", "t", "i", "o", "=", ".", "5">>,
                 <<"?", "s", "c", "h", "e", "m", "e", "=", "h", "t", "t", "p",
                   "&", "r", "a", "t", "i", "o", "=", "1", ".", "5">>}

\* values of the ratio parameter beyond plain decimals: exponent, infinity, NaN,
\* hexadecimal and underscore forms, out-of-range and malformed ones
RatioInputs == {<<"1", "e", "0">>, <<"5", "e", "-", "1">>, <<"i", "n", "f">>,
                <<"-", "I", "n", "f", "i", "n", "i", "t", "y">>, <<"n", "a", "n">>,
                <<"0", "x", "1", "p", "-", "2">>, <<"2", "_", "5", "e", "-", "2">>,
                <<"1", "e", "4", "0", "0">>, <<"_", "1">>, <<"0", "x", "1">>}

\* values of SF_TRACING: unset/empty; scheme, separator and host put together;
\* the backends that read the query, with each query; cloudtrace with each ratio
\* form; a host with a bad port
ConfInputs == {<<>>}
    \cup {s \o p \o h : s \in SchemeInputs, p \in SepInputs, h \in HostInputs}
    \cup {s \o <<":", "/", "/">> \o h \o q :
             s \in {StrCloudtrace, StrZipkin, StrJaeger}, h \in HostInputs, q \in QueryInputs}
    \cup {StrCloudtrace \o <<":", "/", "/", "?">> \o KeyRatio \o <<"=">> \o r : r \in RatioInputs}
    \cup {s \o <<":", "/", "/", "h", ":", "x">> : s \in {StrStdout, StrOtelcol}}

EnvInputs == [expOk : BOOLEAN, resOk : BOOLEAN]

---------------------------------------------------------------------------
(* Trace identifiers: NewFixedTraceID *)

\* length of the hexadecimal form of a trace ID
TraceIDHexLen == 32
\* bytes of a trace ID (ttrace.TraceID is [16]byte)
TraceIDLen == 16
\* bytes of a span ID (ttrace.SpanID is [8]byte)
SpanIDLen == 8

HexAlphabet == <<"0", "1", "2", "3", "4", "5", "6", "7", "8", "9",
                 "a", "b", "c", "d", "e", "f">>
HexUpper == <<"A", "B", "C", "D", "E", "F">>

\* encoding/hex reverseHexTable: the value of a hexadecimal digit, 255 for any other byte
fromHexChar(c) ==
    IF IndexOf(HexAlphabet, c) # 0 THEN IndexOf(HexAlphabet, c) - 1
    ELSE IF IndexOf(HexUpper, c) # 0 THEN IndexOf(HexUpper, c) + 9
    ELSE 255

\* hex.Decode: the loop over pairs from position j (1-based index of the pair's
\* second character), bytes decoded so far in acc
RECURSIVE hexDecodeFrom(_, _, _)
hexDecodeFrom(src, j, acc) ==
    IF j <= Len(src)
    THEN LET a == fromHexChar(src[j - 1])
             b == fromHexChar(src[j])
         IN IF a > 15 \/ b > 15 THEN [err |-> TRUE, bytes |-> acc]
            ELSE hexDecodeFrom(src, j + 2, Append(acc, (a * 16) + b))
    ELSE IF Len(src) % 2 = 1
    THEN [err |-> TRUE, bytes |-> acc]   \* InvalidByteError or ErrLength
    ELSE [err |-> FALSE, bytes |-> acc]

\* hex.DecodeString(s)
hexDecodeString(s) == hexDecodeFrom(s, 2, <<>>)

NotCalled == [called |-> FALSE, panicked |-> FALSE, out |-> <<>>]
Panic == [called |-> TRUE, panicked |-> TRUE, out |-> <<>>]

\* variant: upper-case digits are refused
NewFixedTraceID_LowerOnly(hexTraceID) ==
    IF Len(hexTraceID) # TraceIDHexLen THEN Panic
    ELSE LET d == hexDecodeString(hexTraceID) IN
         IF d.err \/ \E i \in DOMAIN hexTraceID : IsUpper(hexTraceID[i]) THEN Panic
         ELSE [called |-> TRUE, panicked |-> FALSE,
               out |-> [i \in 1..TraceIDLen |-> d.bytes[i]]]

\* NewFixedTraceID(hexTraceID)
NewFixedTraceID(hexTraceID) ==
    IF Len(hexTraceID) # TraceIDHexLen THEN Panic
    ELSE LET d == hexDecodeString(hexTraceID) IN
         IF d.err THEN Panic
         ELSE [called |-> TRUE, panicked |-> FALSE,
               out |-> [i \in 1..TraceIDLen |-> d.bytes[i]]]

\* NewZeroedTraceID()
NewZeroedTraceID == NewFixedTraceID([i \in 1..TraceIDHexLen |-> "0"])

---------------------------------------------------------------------------
(* Contexts.  A context is an immutable node that points to its parent;   *)
(* ctxs[c] is node c, and 0 is context.Background().                      *)

\* ttrace.TraceID{} and ttrace.SpanID{}: the invalid identifiers
ZeroTraceID == [i \in 1..TraceIDLen |-> 0]
ZeroSpanID == [i \in 1..SpanIDLen |-> 0]
\* TraceID.IsValid
IsValid(t) == t # ZeroTraceID

\* ttrace.SpanContext{}: what the no-op span of a context without span carries
EmptySpanContext == [traceID |-> ZeroTraceID, spanID |-> ZeroSpanID, remote |-> FALSE]

\* ttrace.NewSpanContext(SpanContextConfig{TraceID: t, SpanID: sid})
NewSpanContext(t, sid) == [traceID |-> t, spanID |-> sid, remote |-> FALSE]

\* context.WithValue(parent, key, ...) for a key that is not the span key
OtherValueNode(parent) == [parent |-> parent, hasSpan |-> FALSE, sc |-> EmptySpanContext]

\* ttrace.ContextWithSpanContext(parent, sc): a new node holding a non-recording span
ContextWithSpanContext(heap, parent, sc) ==
    [heap |-> Append(heap, [parent |-> parent, hasSpan |-> TRUE, sc |-> sc]),
     ctx  |-> Len(heap) + 1]

\* ttrace.ContextWithRemoteSpanContext(parent, sc)
ContextWithRemoteSpanContext(heap, parent, sc) ==
    ContextWithSpanContext(heap, parent, [sc EXCEPT !.remote = TRUE])

\* ttrace.SpanFromContext(ctx).SpanContext(): the nearest span up the parent chain
RECURSIVE SpanFromContext(_, _)
SpanFromContext(heap, c) ==
    IF c = 0 THEN EmptySpanContext
    ELSE IF heap[c].hasSpan THEN heap[c].sc
    ELSE SpanFromContext(heap, heap[c].parent)

\* GetTraceID(ctx)
GetTraceID(heap, c) == SpanFromContext(heap, c).traceID

\* variant: the span is written into the context passed in
WithTraceID_InPlace(heap, c, traceID, sid) ==
    IF c = 0 THEN ContextWithSpanContext(heap, c, NewSpanContext(traceID, sid))
    ELSE [heap |-> [heap EXCEPT ![c] = [parent |-> heap[c].parent, hasSpan |-> TRUE,
                                        sc |-> NewSpanContext(traceID, sid)]],
          ctx  |-> c]

\* WithTraceID(ctx, traceID); sid is the value NewRandomSpanID() returns
WithTraceID(heap, c, traceID, sid) ==
    ContextWithSpanContext(heap, c, NewSpanContext(traceID, sid))

\* NewZeroedTraceIDInContext(ctx)
NewZeroedTraceIDInContext(heap, c, sid) ==
    ContextWithRemoteSpanContext(heap, c, NewSpanContext(NewZeroedTraceID.out, sid))

\* NewFixedTraceIDInContext(ctx, hexTraceID), for an argument NewFixedTraceID accepts
NewFixedTraceIDInContext(heap, c, hexTraceID, sid) ==
    ContextWithRemoteSpanContext(heap, c, NewSpanContext(NewFixedTraceID(hexTraceID).out, sid))

NoDerivation == [called |-> FALSE, ctx |-> 0, traceID |-> ZeroTraceID,
                 result |-> 0, before |-> ZeroTraceID]

---------------------------------------------------------------------------
(* Inputs of the identifier operations *)

\* trace IDs as NewRandomTraceID() may return them, and the invalid one
TraceIDInputs == {ZeroTraceID,
                  [i \in 1..TraceIDLen |-> IF i = TraceIDLen THEN 1 ELSE 0],
                  [i \in 1..TraceIDLen |-> 255]}
\* span IDs as NewRandomSpanID() may return them
SpanIDInputs == {[i \in 1..SpanIDLen |-> IF i = 1 THEN 7 ELSE 0],
                 [i \in 1..SpanIDLen |-> 255]}

\* arguments of NewFixedTraceID: n copies of a character, one position replaced
HexLenInputs  == {0, 16, 31, 32, 33, 64}
HexBaseInputs == {"0", "a", "F"}
HexPosInputs  == {1, 2, 17, 32}
HexAltInputs  == {"9", "f", "A", "g", "-"}
HexInputs ==
    {[i \in 1..n |-> IF i = p THEN c ELSE b] :
        n \in HexLenInputs, b \in HexBaseInputs, p \in HexPosInputs, c \in HexAltInputs}

\* arguments of NewFixedTraceIDInContext
FixedCtxInputs == {[i \in 1..TraceIDHexLen |-> IF i % 2 = 1 THEN "A" ELSE "b"],
                   [i \in 1..TraceIDHexLen |-> IF i = TraceIDHexLen THEN "x" ELSE "0"]}

---------------------------------------------------------------------------
(* State machine of the setup *)

Init ==
    /\ callNo = 0
    /\ pc = "idle"
    /\ elapsed = 0
    /\ tracerProvider = NoProvider
    /\ propagator = "noop"
    /\ lastConf = <<>>
    /\ lastEnv = [expOk |-> TRUE, resOk |-> TRUE]
    /\ lastErr = "none"
    /\ ran = {}
    /\ lastBuilt = 0
    /\ ctxs = <<>>
    /\ derived = NoDerivation
    /\ hexIn = <<>>
    /\ fixedOut = NotCalled

\* every value of SF_TRACING and of the environment with what
\* SetupOpenTelemetry does on it (computed once)
SetupRuns == {<<conf, env, SetupOpenTelemetry(conf, env)>> : conf \in ConfInputs, env \in EnvInputs}

\* the globals after a constructor that ended with effect eff in invocation n
ApplyEffect(eff, n) ==
    /\ tracerProvider' = IF eff.install THEN [eff.prov EXCEPT !.builtBy = n]
                         ELSE tracerProvider
    /\ propagator' = IF eff.setProp THEN "tracecontext" ELSE propagator

\* one call of SetupOpenTelemetry, up to its return or to the blocking dial
Setup ==
    /\ pc = "idle"
    /\ callNo < MaxCalls
    /\ \E run \in SetupRuns :
         LET conf == run[1]
             env  == run[2]
             r    == run[3]
         IN
         /\ callNo' = callNo + 1
         /\ lastConf' = conf
         /\ lastEnv' = env
         /\ ran' = r.ran
         /\ lastErr' = r.eff.err
         /\ ApplyEffect(r.eff, callNo + 1)
         /\ pc' = IF r.eff.block THEN "dialing" ELSE "idle"
         /\ lastBuilt' = IF r.eff.err = "ok" /\ conf # <<>> THEN callNo + 1 ELSE lastBuilt
    /\ elapsed' = 0
    /\ UNCHANGED idVars

\* time passes while grpc.DialContext blocks
Tick ==
    /\ pc = "dialing"
    /\ ~DeadlineExceeded(elapsed)
    /\ elapsed' = elapsed + 1
    /\ UNCHANGED <<callNo, pc, tracerProvider, propagator, lastConf, lastEnv,
                   lastErr, ran, lastBuilt>>
    /\ UNCHANGED idVars

\* the connection is established before the deadline; the constructor runs to its return
DialConnected ==
    /\ pc = "dialing"
    /\ ~DeadlineExceeded(elapsed)
    /\ LET eff == registerOtelcolConnected(lastEnv) IN
         /\ lastErr' = eff.err
         /\ ApplyEffect(eff, callNo)
         /\ lastBuilt' = IF eff.err = "ok" THEN callNo ELSE lastBuilt
    /\ pc' = "idle"
    /\ UNCHANGED <<callNo, elapsed, lastConf, lastEnv, ran>>
    /\ UNCHANGED idVars

\* the deadline passes first; DialContext returns the context's error
DialDeadline ==
    /\ pc = "dialing"
    /\ DeadlineExceeded(elapsed)
    /\ LET eff == registerOtelcolTimeout IN
         /\ lastErr' = eff.err
         /\ ApplyEffect(eff, callNo)
    /\ pc' = "idle"
    /\ UNCHANGED <<callNo, elapsed, lastConf, lastEnv, ran, lastBuilt>>
    /\ UNCHANGED idVars

Next == Setup \/ Tick \/ DialConnected \/ DialDeadline

Spec == Init /\ [][Next]_vars

\* the clock advances and the context's timer fires
LiveSpec == Init /\ [][Next]_vars /\ WF_vars(Tick) /\ WF_vars(DialDeadline)


---------------------------------------------------------------------------
(* Properties of the setup *)

\* the setting of the latest invocation, parsed
LastURL == UrlParse(lastConf)
\* the latest invocation has returned
Returned == callNo > 0 /\ pc = "idle"
\* the latest invocation installed its provider
InstalledByLast == tracerProvider.builtBy = callNo
FiveSchemes == {StrStdout, StrCloudtrace, StrOtelcol, StrZipkin, StrJaeger}

\* C1: an invocation with an empty setting returns nil, enters no backend
\* constructor and leaves the global tracer provider and propagator as they were.
C1_EmptyConfIsNoOp ==
    [][(callNo' = callNo + 1 /\ lastConf' = <<>>)
          => /\ lastErr' = "ok"
             /\ pc' = "idle"
             /\ ran' = {}
             /\ tracerProvider' = tracerProvider
             /\ propagator' = propagator]_vars

\* an empty setting read after an earlier invocation installed provider and propagator
C1_Witness ==
    /\ callNo >= 2
    /\ lastConf = <<>>
    /\ lastErr = "ok"
    /\ tracerProvider.builtBy = 1
    /\ propagator = "tracecontext"

\* C2: a cloudtrace setting without a ratio parameter, exporter and resource
\* succeeding, returns nil and installs a provider sampling at ratio 0.25.
C2_DefaultRatio ==
    (/\ Returned
     /\ ran = {"registerCloudTrace"}
     /\ ~QueryHas(LastURL.RawQuery, KeyRatio)
     /\ lastEnv.expOk /\ lastEnv.resOk)
    => /\ lastErr = "ok"
       /\ InstalledByLast
       /\ tracerProvider.sampler = RatioSampler("finite", 25, 0 - 2)

\* C3 as stated: after a successful first invocation that selected a backend, the
\* propagator is installed if and only if the backend is not stdout.
C3_PropagatorUnlessStdout ==
    (callNo = 1 /\ pc = "idle" /\ lastErr = "ok" /\ ran # {})
    => (propagator = "tracecontext" <=> LastURL.Scheme # StrStdout)

\* C3 amended: after a successful first invocation that selected a backend, the
\* propagator is installed if and only if the backend is otelcol, zipkin or jaeger;
\* it is installed neither for stdout nor for cloudtrace.
C3_PropagatorForCollectors ==
    (callNo = 1 /\ pc = "idle" /\ lastErr = "ok" /\ ran # {})
    => (propagator = "tracecontext" <=> LastURL.Scheme \in {StrOtelcol, StrZipkin, StrJaeger})

\* a first invocation that installed the cloudtrace provider and no propagator
C3_Witness ==
    /\ callNo = 1 /\ pc = "idle" /\ lastErr = "ok"
    /\ LastURL.Scheme = StrCloudtrace
    /\ InstalledByLast
    /\ propagator = "noop"

\* the exporter constructor of the latest invocation was called and failed
ExporterFailed ==
    \/ ran = {"registerStdout"} /\ ~lastEnv.expOk
    \/ ran = {"registerCloudTrace"} /\ ~lastEnv.expOk
    \/ ran = {"registerOtelcol"} /\ lastEnv.resOk /\ lastErr # "dial" /\ ~lastEnv.expOk
    \/ ran = {"registerZipkin"} /\ lastEnv.resOk /\ ZipkinNewFails(LastURL, lastEnv)
    \/ ran = {"registerJaeger"} /\ lastEnv.resOk /\ ~lastEnv.expOk

\* C4: for each backend, when the exporter constructor fails the invocation
\* returns an error and installs no provider.
C4_ExporterFailureSurfaces ==
    (Returned /\ ExporterFailed) => (lastErr # "ok" /\ ~InstalledByLast)

\* the constructor that belongs to each recognised scheme
ConstructorOf(scheme) ==
    CASE scheme = StrStdout     -> "registerStdout"
      [] scheme = StrCloudtrace -> "registerCloudTrace"
      [] scheme = StrOtelcol    -> "registerOtelcol"
      [] scheme = StrZipkin     -> "registerZipkin"
      [] scheme = StrJaeger     -> "registerJaeger"

\* C5: a setting that parses with a scheme outside the five returns the
\* unsupported-scheme error and enters no constructor; with one of the five
\* exactly that scheme's constructor is entered.
C5_DispatchByScheme ==
    (callNo > 0 /\ lastConf # <<>> /\ ~LastURL.err)
    => IF LastURL.Scheme \in FiveSchemes
       THEN ran = {ConstructorOf(LastURL.Scheme)} /\ lastErr # "unsupported"
       ELSE ran = {} /\ lastErr = "unsupported" /\ ~InstalledByLast

\* an unknown scheme was refused while an earlier provider stays installed
C5_Witness ==
    /\ callNo = 2
    /\ LastURL.Scheme = <<"f", "o", "o">>
    /\ lastErr = "unsupported"
    /\ tracerProvider.builtBy = 1

\* the ratio parameter of the latest setting is present and is no float
BadRatio ==
    /\ QueryHas(LastURL.RawQuery, KeyRatio)
    /\ ParseFloat(QueryGet(LastURL.RawQuery, KeyRatio)).err

\* C6 as stated: a cloudtrace setting whose ratio is present and is no float fails
\* with the ratio configuration error and installs nothing.
C6_BadRatioIsConfigError ==
    (Returned /\ ran = {"registerCloudTrace"} /\ BadRatio)
    => (lastErr = "ratio" /\ ~InstalledByLast)

\* C6 amended: such a setting always fails and installs nothing; the error is the
\* ratio configuration error when exporter and resource construction, which run
\* first, succeed, and otherwise the error of the step that failed.
C6_BadRatioFails ==
    (Returned /\ ran = {"registerCloudTrace"} /\ BadRatio)
    => /\ lastErr # "ok"
       /\ ~InstalledByLast
       /\ (lastEnv.expOk /\ lastEnv.resOk) => lastErr = "ratio"
       /\ ~lastEnv.expOk => lastErr = "exporter"
       /\ (lastEnv.expOk /\ ~lastEnv.resOk) => lastErr = "resource"

\* a cloudtrace setting with ratio=abc was refused with the ratio error
C6_Witness ==
    /\ Returned
    /\ ran = {"registerCloudTrace"}
    /\ QueryGet(LastURL.RawQuery, KeyRatio) = <<"a", "b", "c">>
    /\ lastErr = "ratio"
    /\ tracerProvider = NoProvider

\* C9: an otelcol invocation that dials always returns; when the deadline passes
\* first it returns the dial error and leaves provider and propagator as they
\* were; it installs them only in the step in which the connection is
\* established before the deadline.
C9_DialBounded ==
    /\ (pc = "dialing") ~> (pc = "idle")
    /\ [][(pc = "dialing" /\ pc' = "idle" /\ elapsed >= Deadline)
             => /\ lastErr' = "dial"
                /\ tracerProvider' = tracerProvider
                /\ propagator' = propagator]_vars
    /\ [][(ran' = {"registerOtelcol"}
             /\ (tracerProvider' # tracerProvider \/ propagator' # propagator))
             => /\ pc = "dialing" /\ pc' = "idle"
                /\ elapsed < Deadline
                /\ lastErr' = "ok"]_vars

\* the dial ran into its deadline and the invocation returned the dial error
C9_Witness ==
    /\ pc = "idle"
    /\ ran = {"registerOtelcol"}
    /\ elapsed = Deadline
    /\ lastErr = "dial"
    /\ tracerProvider = NoProvider
    /\ propagator = "noop"

\* C10: the installed provider is the one built by the latest invocation that
\* returned nil on a non-empty setting (none installed before the first such
\* invocation); an invocation that returns an error, or reads an empty setting,
\* leaves provider and propagator unchanged.
C10_LastSuccessWins ==
    /\ [](tracerProvider.builtBy = lastBuilt
          /\ (lastBuilt = 0 => tracerProvider = NoProvider /\ propagator = "noop"))
    /\ [][(lastErr' # "ok" \/ lastConf' = <<>>)
             => (tracerProvider' = tracerProvider /\ propagator' = propagator)]_vars

\* a failed second invocation left the provider of the first one in place
C10_Witness ==
    /\ callNo = 2 /\ pc = "idle"
    /\ lastErr \notin {"ok", "pending"}
    /\ ran # {}
    /\ lastBuilt = 1
    /\ tracerProvider.builtBy = 1


---------------------------------------------------------------------------
(* State machine of the context operations; a panic ends the process *)

\* ctx = WithTraceID(ctx0, traceID)
CallWithTraceID ==
    /\ Len(ctxs) < MaxCtx
    /\ ~fixedOut.panicked
    /\ \E c \in 0..Len(ctxs), t \in TraceIDInputs, sid \in SpanIDInputs :
         LET r == WithTraceID(ctxs, c, t, sid) IN
         /\ ctxs' = r.heap
         /\ derived' = [called |-> TRUE, ctx |-> c, traceID |-> t, result |-> r.ctx,
                        before |-> GetTraceID(ctxs, c)]
    /\ UNCHANGED <<hexIn, fixedOut>>
    /\ UNCHANGED setupVars

\* ctx = NewZeroedTraceIDInContext(ctx0)
CallNewZeroedTraceIDInContext ==
    /\ Len(ctxs) < MaxCtx
    /\ ~fixedOut.panicked
    /\ \E c \in 0..Len(ctxs), sid \in SpanIDInputs :
         ctxs' = NewZeroedTraceIDInContext(ctxs, c, sid).heap
    /\ hexIn' = [i \in 1..TraceIDHexLen |-> "0"]
    /\ fixedOut' = NewZeroedTraceID
    /\ UNCHANGED derived
    /\ UNCHANGED setupVars

\* ctx = NewFixedTraceIDInContext(ctx0, h); a panic of NewFixedTraceID leaves no context
CallNewFixedTraceIDInContext ==
    /\ Len(ctxs) < MaxCtx
    /\ ~fixedOut.panicked
    /\ \E c \in 0..Len(ctxs), h \in FixedCtxInputs, sid \in SpanIDInputs :
         /\ hexIn' = h
         /\ fixedOut' = NewFixedTraceID(h)
         /\ ctxs' = IF fixedOut'.panicked THEN ctxs
                    ELSE NewFixedTraceIDInContext(ctxs, c, h, sid).heap
    /\ UNCHANGED derived
    /\ UNCHANGED setupVars

\* a caller derives a context that carries some other value
CallWithValue ==
    /\ Len(ctxs) < MaxCtx
    /\ ~fixedOut.panicked
    /\ \E c \in 0..Len(ctxs) : ctxs' = Append(ctxs, OtherValueNode(c))
    /\ UNCHANGED <<derived, hexIn, fixedOut>>
    /\ UNCHANGED setupVars

NextCtx ==
    \/ CallWithTraceID
    \/ CallNewZeroedTraceIDInContext
    \/ CallNewFixedTraceIDInContext
    \/ CallWithValue

SpecCtx == Init /\ [][NextCtx]_vars

---------------------------------------------------------------------------
(* State machine of NewFixedTraceID: one call after another *)

CallNewFixedTraceID ==
    /\ \E h \in HexInputs :
         /\ hexIn' = h
         /\ fixedOut' = NewFixedTraceID(h)
    /\ UNCHANGED <<ctxs, derived>>
    /\ UNCHANGED setupVars

NextHex == CallNewFixedTraceID

SpecHex == Init /\ [][NextHex]_vars

---------------------------------------------------------------------------
(* Properties of the identifier operations *)

\* C7: for a valid trace ID t, GetTraceID(WithTraceID(ctx, t)) is t whatever span
\* ctx carried, and GetTraceID(ctx) is the same after the call as before it.
C7_WithTraceIDRoundTrip ==
    (derived.called /\ IsValid(derived.traceID))
    => /\ GetTraceID(ctxs, derived.result) = derived.traceID
       /\ GetTraceID(ctxs, derived.ctx) = derived.before

\* WithTraceID was applied to a context that already carried another valid trace ID
C7_Witness ==
    /\ derived.called
    /\ IsValid(derived.traceID)
    /\ IsValid(derived.before)
    /\ derived.before # derived.traceID
    /\ derived.ctx # 0
    /\ GetTraceID(ctxs, derived.result) = derived.traceID

\* the characters hex.DecodeString accepts
IsHexChar(c) == c \in Range(HexAlphabet) \cup Range(HexUpper)
\* the argument is exactly 32 hexadecimal characters
WellFormedHex(h) == Len(h) = 32 /\ \A i \in DOMAIN h : IsHexChar(h[i])
\* hex.EncodeToString(bytes)
EncodeToString(bytes) ==
    [i \in 1..(2 * Len(bytes)) |->
        IF i % 2 = 1 THEN HexAlphabet[(bytes[(i + 1) \div 2] \div 16) + 1]
        ELSE HexAlphabet[(bytes[i \div 2] % 16) + 1]]

\* C8: NewFixedTraceID panics, returning nothing, on every argument that is not
\* exactly 32 hexadecimal characters; on 32 hexadecimal characters it returns
\* the 16 bytes the argument encodes.
C8_FixedTraceID ==
    fixedOut.called
    => IF WellFormedHex(hexIn)
       THEN /\ ~fixedOut.panicked
            /\ Len(fixedOut.out) = 16
            /\ \A i \in 1..16 : fixedOut.out[i] \in 0..255
            /\ EncodeToString(fixedOut.out) = ToLower(hexIn)
       ELSE fixedOut.panicked /\ fixedOut.out = <<>>

\* a 32-character argument mixing upper-case and lower-case digits was decoded
C8_Witness ==
    /\ fixedOut.called
    /\ ~fixedOut.panicked
    /\ Len(hexIn) = 32
    /\ hexIn[1] = "A"
    /\ hexIn[2] = "a"
    /\ fixedOut.out[1] = 170
    /\ fixedOut.out[16] = 170

=============================================================================
